---- MODULE Spec2Model ----
(***************************************************************************)
(* A model of src/homoReducer.py: the Paillier engine (big-integer          *)
(* helpers, the fixed-point codec, the public and private key, the          *)
(* EncryptedNumber operators) and the aggregation driver at the end of the  *)
(* file.  Keys are built from small primes so that the whole ring Z_n^2 is  *)
(* enumerable; every arithmetic operator is computed as the code computes   *)
(* it.  A Python exception is modelled as an outcome record with ok = FALSE *)
(* and the exception in err.                                                *)
(***************************************************************************)
EXTENDS Integers, Sequences, FiniteSets, TLC

VARIABLES
    private_key,   \* the PaillierPrivateKey in use (its public_key inside)
    heap,          \* program variable name -> EncryptedNumber instance (or NoObj)
    ghost,         \* program variable name -> how the instance was produced
    last,          \* the most recent call: operation, operands, outcome
    aggregation,   \* the driver's accumulator (line 828)
    stdin,         \* the driver's unread input lines
    pc             \* the driver's position

vars == <<private_key, heap, ghost, last, aggregation, stdin, pc>>

-----------------------------------------------------------------------------
(* Bounds of the model *)

\* plaintext integers offered to encrypt / add / multiply: -MaxVal..MaxVal
MaxVal == 5

Values == (0 - MaxVal)..MaxVal

-----------------------------------------------------------------------------
(* Outcomes: a returned value, or a raised exception *)

\* Python's int 0, the value aggregation starts from
PyInt(v) == [int |-> v]

ErrNoAttribute == "AttributeError: 'int' object has no attribute 'public_key'"

\* a returned number is val / den (den is 1 for every integer result)
Ok(v) == [ok |-> TRUE, val |-> v, den |-> 1, err |-> "none"]

OkDiv(v, d) == [ok |-> TRUE, val |-> v, den |-> d, err |-> "none"]

Raise(e) == [ok |-> FALSE, val |-> 0, den |-> 1, err |-> e]

\* an optional argument: None, or Some(x)
None == <<>>

Some(x) == <<x>>

ErrOutOfRange == "ValueError: Integer needs to be within +/- max_int"

ErrCorrupted == "ValueError: Attempted to decode corrupted number"

ErrOverflow == "OverflowError: Overflow detected in decrypted number"

ErrNoInverse == "ZeroDivisionError: invert() no inverse exists"

ErrKeyDecrypt == "ValueError: encrypted_number was encrypted against a different key!"

ErrKeyAddEncrypted == "ValueError: Attempted to add numbers encrypted against different public keys!"

ErrKeyAddEncoded == "ValueError: Attempted to add numbers encoded against different public keys!"

ErrScalarBounds == "ValueError: Scalar out of bounds"

ErrNewExponent == "ValueError: New exponent should be more negative than old exponent"

-----------------------------------------------------------------------------
(* Big-integer helpers *)

\* Python's pow(a, b, c) for b >= 0, c > 0
RECURSIVE pow(_, _, _)
pow(a, b, c) ==
    IF b = 0 THEN 1 % c
    ELSE IF b % 2 = 0 THEN pow((a * a) % c, b \div 2, c)
    ELSE (a * pow((a * a) % c, b \div 2, c)) % c

\* Python's a ** b for b >= 0
RECURSIVE ipow(_, _)
ipow(a, b) == IF b = 0 THEN 1 ELSE a * ipow(a, b - 1)

powmod(a, b, c) == IF a = 1 THEN 1 ELSE pow(a, b, c)

ErrPowZero == "ValueError: pow() 3rd argument cannot be 0"

\* Python's x % c for c # 0: the result has the sign of c
pymod(x, c) == IF c > 0 THEN x % c ELSE 0 - ((0 - x) % (0 - c))

\* powmod(a, b, c) for any modulus c and b >= 0, as an outcome: pow raises
\* for c = 0 and reduces modulo a negative c
powmod_any(a, b, c) ==
    IF a = 1 THEN Ok(1)
    ELSE IF c = 0 THEN Raise(ErrPowZero)
    ELSE IF c > 0 THEN Ok(pow(a, b, c))
    ELSE Ok(pymod(ipow(a, b), c))

\* the while loop of extended_euclidean_algorithm on <<r0, r1, s0, s1, t0, t1>>
RECURSIVE eea_loop(_, _, _, _, _, _)
eea_loop(r0, r1, s0, s1, t0, t1) ==
    IF r1 = 0 THEN <<r0, s0, t0>>
    ELSE LET q == r0 \div r1
         IN  eea_loop(r1, r0 - q * r1, s1, s0 - q * s1, t1, t0 - q * t1)

extended_euclidean_algorithm(a, b) == eea_loop(a, b, 1, 0, 0, 1)

\* invert(a, b) in the pure-Python path (HAVE_GMP is False)
invert(a, b) ==
    LET ret(rst) == IF rst[1] # 1 THEN Raise(ErrNoInverse) ELSE Ok(rst[2] % b)
    IN  ret(extended_euclidean_algorithm(a, b))

\* gcd(a, m) = 1
IsUnit(a, m) == extended_euclidean_algorithm(a, m)[1] = 1

abs(x) == IF x < 0 THEN 0 - x ELSE x

min(x, y) == IF x < y THEN x ELSE y

-----------------------------------------------------------------------------
(* Prime testing *)

first_primes ==
    <<2, 3, 5, 7, 11, 13, 17, 19, 23, 29, 31, 37,
      41, 43, 47, 53, 59, 61, 67, 71, 73, 79, 83, 89,
      97, 101, 103, 107, 109, 113, 127, 131, 137, 139, 149, 151,
      157, 163, 167, 173, 179, 181, 191, 193, 197, 199, 211, 223,
      227, 229, 233, 239, 241, 251, 257, 263, 269, 271, 277, 281,
      283, 293, 307, 311, 313, 317, 331, 337, 347, 349, 353, 359,
      367, 373, 379, 383, 389, 397, 401, 409, 419, 421, 431, 433,
      439, 443, 449, 457, 461, 463, 467, 479, 487, 491, 499, 503,
      509, 521, 523, 541, 547, 557, 563, 569, 571, 577, 587, 593,
      599, 601, 607, 613, 617, 619, 631, 641, 643, 647, 653, 659,
      661, 673, 677, 683, 691, 701, 709, 719, 727, 733, 739, 743,
      751, 757, 761, 769, 773, 787, 797, 809, 811, 821, 823, 827,
      829, 839, 853, 857, 859, 863, 877, 881, 883, 887, 907, 911,
      919, 929, 937, 941, 947, 953, 967, 971, 977, 983, 991, 997,
      1009, 1013, 1019, 1021, 1031, 1033, 1039, 1049, 1051, 1061, 1063, 1069,
      1087, 1091, 1093, 1097, 1103, 1109, 1117, 1123, 1129, 1151, 1153, 1163,
      1171, 1181, 1187, 1193, 1201, 1213, 1217, 1223, 1229, 1231, 1237, 1249,
      1259, 1277, 1279, 1283, 1289, 1291, 1297, 1301, 1303, 1307, 1319, 1321,
      1327, 1361, 1367, 1373, 1381, 1399, 1409, 1423, 1427, 1429, 1433, 1439,
      1447, 1451, 1453, 1459, 1471, 1481, 1483, 1487, 1489, 1493, 1499, 1511,
      1523, 1531, 1543, 1549, 1553, 1559, 1567, 1571, 1579, 1583, 1597, 1601,
      1607, 1609, 1613, 1619, 1621, 1627, 1637, 1657, 1663, 1667, 1669, 1693,
      1697, 1699, 1709, 1721, 1723, 1733, 1741, 1747, 1753, 1759, 1777, 1783,
      1787, 1789, 1801, 1811, 1823, 1831, 1847, 1861, 1867, 1871, 1873, 1877,
      1879, 1889, 1901, 1907, 1913, 1931, 1933, 1949, 1951, 1973, 1979, 1987,
      1993, 1997, 1999, 2003, 2011, 2017, 2027, 2029, 2039, 2053, 2063, 2069,
      2081, 2083, 2087, 2089, 2099, 2111, 2113, 2129, 2131, 2137, 2141, 2143,
      2153, 2161, 2179, 2203, 2207, 2213, 2221, 2237, 2239, 2243, 2251, 2267,
      2269, 2273, 2281, 2287, 2293, 2297, 2309, 2311, 2333, 2339, 2341, 2347,
      2351, 2357, 2371, 2377, 2381, 2383, 2389, 2393, 2399, 2411, 2417, 2423,
      2437, 2441, 2447, 2459, 2467, 2473, 2477, 2503, 2521, 2531, 2539, 2543,
      2549, 2551, 2557, 2579, 2591, 2593, 2609, 2617, 2621, 2633, 2647, 2657,
      2659, 2663, 2671, 2677, 2683, 2687, 2689, 2693, 2699, 2707, 2711, 2713,
      2719, 2729, 2731, 2741, 2749, 2753, 2767, 2777, 2789, 2791, 2797, 2801,
      2803, 2819, 2833, 2837, 2843, 2851, 2857, 2861, 2879, 2887, 2897, 2903,
      2909, 2917, 2927, 2939, 2953, 2957, 2963, 2969, 2971, 2999, 3001, 3011,
      3019, 3023, 3037, 3041, 3049, 3061, 3067, 3079, 3083, 3089, 3109, 3119,
      3121, 3137, 3163, 3167, 3169, 3181, 3187, 3191, 3203, 3209, 3217, 3221,
      3229, 3251, 3253, 3257, 3259, 3271, 3299, 3301, 3307, 3313, 3319, 3323,
      3329, 3331, 3343, 3347, 3359, 3361, 3371, 3373, 3389, 3391, 3407, 3413,
      3433, 3449, 3457, 3461, 3463, 3467, 3469, 3491, 3499, 3511, 3517, 3527,
      3529, 3533, 3539, 3541, 3547, 3557, 3559, 3571, 3581, 3583, 3593, 3607,
      3613, 3617, 3623, 3631, 3637, 3643, 3659, 3671, 3673, 3677, 3691, 3697,
      3701, 3709, 3719, 3727, 3733, 3739, 3761, 3767, 3769, 3779, 3793, 3797,
      3803, 3821, 3823, 3833, 3847, 3851, 3853, 3863, 3877, 3881, 3889, 3907,
      3911, 3917, 3919, 3923, 3929, 3931, 3943, 3947, 3967, 3989, 4001, 4003,
      4007, 4013, 4019, 4021, 4027, 4049, 4051, 4057, 4073, 4079, 4091, 4093,
      4099, 4111, 4127, 4129, 4133, 4139, 4153, 4157, 4159, 4177, 4201, 4211,
      4217, 4219, 4229, 4231, 4241, 4243, 4253, 4259, 4261, 4271, 4273, 4283,
      4289, 4297, 4327, 4337, 4339, 4349, 4357, 4363, 4373, 4391, 4397, 4409,
      4421, 4423, 4441, 4447, 4451, 4457, 4463, 4481, 4483, 4493, 4507, 4513,
      4517, 4519, 4523, 4547, 4549, 4561, 4567, 4583, 4591, 4597, 4603, 4621,
      4637, 4639, 4643, 4649, 4651, 4657, 4663, 4673, 4679, 4691, 4703, 4721,
      4723, 4729, 4733, 4751, 4759, 4783, 4787, 4789, 4793, 4799, 4801, 4813,
      4817, 4831, 4861, 4871, 4877, 4889, 4903, 4909, 4919, 4931, 4933, 4937,
      4943, 4951, 4957, 4967, 4969, 4973, 4987, 4993, 4999, 5003, 5009, 5011,
      5021, 5023, 5039, 5051, 5059, 5077, 5081, 5087, 5099, 5101, 5107, 5113,
      5119, 5147, 5153, 5167, 5171, 5179, 5189, 5197, 5209, 5227, 5231, 5233,
      5237, 5261, 5273, 5279, 5281, 5297, 5303, 5309, 5323, 5333, 5347, 5351,
      5381, 5387, 5393, 5399, 5407, 5413, 5417, 5419, 5431, 5437, 5441, 5443,
      5449, 5471, 5477, 5479, 5483, 5501, 5503, 5507, 5519, 5521, 5527, 5531,
      5557, 5563, 5569, 5573, 5581, 5591, 5623, 5639, 5641, 5647, 5651, 5653,
      5657, 5659, 5669, 5683, 5689, 5693, 5701, 5711, 5717, 5737, 5741, 5743,
      5749, 5779, 5783, 5791, 5801, 5807, 5813, 5821, 5827, 5839, 5843, 5849,
      5851, 5857, 5861, 5867, 5869, 5879, 5881, 5897, 5903, 5923, 5927, 5939,
      5953, 5981, 5987, 6007, 6011, 6029, 6037, 6043, 6047, 6053, 6067, 6073,
      6079, 6089, 6091, 6101, 6113, 6121, 6131, 6133, 6143, 6151, 6163, 6173,
      6197, 6199, 6203, 6211, 6217, 6221, 6229, 6247, 6257, 6263, 6269, 6271,
      6277, 6287, 6299, 6301, 6311, 6317, 6323, 6329, 6337, 6343, 6353, 6359,
      6361, 6367, 6373, 6379, 6389, 6397, 6421, 6427, 6449, 6451, 6469, 6473,
      6481, 6491, 6521, 6529, 6547, 6551, 6553, 6563, 6569, 6571, 6577, 6581,
      6599, 6607, 6619, 6637, 6653, 6659, 6661, 6673, 6679, 6689, 6691, 6701,
      6703, 6709, 6719, 6733, 6737, 6761, 6763, 6779, 6781, 6791, 6793, 6803,
      6823, 6827, 6829, 6833, 6841, 6857, 6863, 6869, 6871, 6883, 6899, 6907,
      6911, 6917, 6947, 6949, 6959, 6961, 6967, 6971, 6977, 6983, 6991, 6997,
      7001, 7013, 7019, 7027, 7039, 7043, 7057, 7069, 7079, 7103, 7109, 7121,
      7127, 7129, 7151, 7159, 7177, 7187, 7193, 7207, 7211, 7213, 7219, 7229,
      7237, 7243, 7247, 7253, 7283, 7297, 7307, 7309, 7321, 7331, 7333, 7349,
      7351, 7369, 7393, 7411, 7417, 7433, 7451, 7457, 7459, 7477, 7481, 7487,
      7489, 7499, 7507, 7517, 7523, 7529, 7537, 7541, 7547, 7549, 7559, 7561,
      7573, 7577, 7583, 7589, 7591, 7603, 7607, 7621, 7639, 7643, 7649, 7669,
      7673, 7681, 7687, 7691, 7699, 7703, 7717, 7723, 7727, 7741, 7753, 7757,
      7759, 7789, 7793, 7817, 7823, 7829, 7841, 7853, 7867, 7873, 7877, 7879,
      7883, 7901, 7907, 7919, 7927, 7933, 7937, 7949, 7951, 7963, 7993, 8009,
      8011, 8017, 8039, 8053, 8059, 8069, 8081, 8087, 8089, 8093, 8101, 8111,
      8117, 8123, 8147, 8161, 8167, 8171, 8179, 8191, 8209, 8219, 8221, 8231,
      8233, 8237, 8243, 8263, 8269, 8273, 8287, 8291, 8293, 8297, 8311, 8317,
      8329, 8353, 8363, 8369, 8377, 8387, 8389, 8419, 8423, 8429, 8431, 8443,
      8447, 8461, 8467, 8501, 8513, 8521, 8527, 8537, 8539, 8543, 8563, 8573,
      8581, 8597, 8599, 8609, 8623, 8627, 8629, 8641, 8647, 8663, 8669, 8677,
      8681, 8689, 8693, 8699, 8707, 8713, 8719, 8731, 8737, 8741, 8747, 8753,
      8761, 8779, 8783, 8803, 8807, 8819, 8821, 8831, 8837, 8839, 8849, 8861,
      8863, 8867, 8887, 8893, 8923, 8929, 8933, 8941, 8951, 8963, 8969, 8971,
      8999, 9001, 9007, 9011, 9013, 9029, 9041, 9043, 9049, 9059, 9067, 9091,
      9103, 9109, 9127, 9133, 9137, 9151, 9157, 9161, 9173, 9181, 9187, 9199,
      9203, 9209, 9221, 9227, 9239, 9241, 9257, 9277, 9281, 9283, 9293, 9311,
      9319, 9323, 9337, 9341, 9343, 9349, 9371, 9377, 9391, 9397, 9403, 9413,
      9419, 9421, 9431, 9433, 9437, 9439, 9461, 9463, 9467, 9473, 9479, 9491,
      9497, 9511, 9521, 9533, 9539, 9547, 9551, 9587, 9601, 9613, 9619, 9623,
      9629, 9631, 9643, 9649, 9661, 9677, 9679, 9689, 9697, 9719, 9721, 9733,
      9739, 9743, 9749, 9767, 9769, 9781, 9787, 9791, 9803, 9811, 9817, 9829,
      9833, 9839, 9851, 9857, 9859, 9871, 9883, 9887, 9901, 9907, 9923, 9929,
      9931, 9941, 9949, 9967, 9973, 10007, 10009, 10037, 10039, 10061, 10067, 10069,
      10079, 10091, 10093, 10099, 10103, 10111, 10133, 10139, 10141, 10151, 10159, 10163,
      10169, 10177, 10181, 10193, 10211, 10223, 10243, 10247, 10253, 10259, 10267, 10271,
      10273, 10289, 10301, 10303, 10313, 10321, 10331, 10333, 10337, 10343, 10357, 10369,
      10391, 10399, 10427, 10429, 10433, 10453, 10457, 10459, 10463, 10477, 10487, 10499,
      10501, 10513, 10529, 10531, 10559, 10567, 10589, 10597, 10601, 10607, 10613, 10627,
      10631, 10639, 10651, 10657, 10663, 10667, 10687, 10691, 10709, 10711, 10723, 10729,
      10733, 10739, 10753, 10771, 10781, 10789, 10799, 10831, 10837, 10847, 10853, 10859,
      10861, 10867, 10883, 10889, 10891, 10903, 10909, 10937, 10939, 10949, 10957, 10973,
      10979, 10987, 10993, 11003, 11027, 11047, 11057, 11059, 11069, 11071, 11083, 11087,
      11093, 11113, 11117, 11119, 11131, 11149, 11159, 11161, 11171, 11173, 11177, 11197,
      11213, 11239, 11243, 11251, 11257, 11261, 11273, 11279, 11287, 11299, 11311, 11317,
      11321, 11329, 11351, 11353, 11369, 11383, 11393, 11399, 11411, 11423, 11437, 11443,
      11447, 11467, 11471, 11483, 11489, 11491, 11497, 11503, 11519, 11527, 11549, 11551,
      11579, 11587, 11593, 11597, 11617, 11621, 11633, 11657, 11677, 11681, 11689, 11699,
      11701, 11717, 11719, 11731, 11743, 11777, 11779, 11783, 11789, 11801, 11807, 11813,
      11821, 11827, 11831, 11833, 11839, 11863, 11867, 11887, 11897, 11903, 11909, 11923,
      11927, 11933, 11939, 11941, 11953, 11959, 11969, 11971, 11981, 11987, 12007, 12011,
      12037, 12041, 12043, 12049, 12071, 12073, 12097, 12101, 12107, 12109, 12113, 12119,
      12143, 12149, 12157, 12161, 12163, 12197, 12203, 12211, 12227, 12239, 12241, 12251,
      12253, 12263, 12269, 12277, 12281, 12289, 12301, 12323, 12329, 12343, 12347, 12373,
      12377, 12379, 12391, 12401, 12409, 12413, 12421, 12433, 12437, 12451, 12457, 12473,
      12479, 12487, 12491, 12497, 12503, 12511, 12517, 12527, 12539, 12541, 12547, 12553,
      12569, 12577, 12583, 12589, 12601, 12611, 12613, 12619, 12637, 12641, 12647, 12653,
      12659, 12671, 12689, 12697, 12703, 12713, 12721, 12739, 12743, 12757, 12763, 12781,
      12791, 12799, 12809, 12821, 12823, 12829, 12841, 12853, 12889, 12893, 12899, 12907,
      12911, 12917, 12919, 12923, 12941, 12953, 12959, 12967, 12973, 12979, 12983, 13001,
      13003, 13007, 13009, 13033, 13037, 13043, 13049, 13063, 13093, 13099, 13103, 13109,
      13121, 13127, 13147, 13151, 13159, 13163, 13171, 13177, 13183, 13187, 13217, 13219,
      13229, 13241, 13249, 13259, 13267, 13291, 13297, 13309, 13313, 13327, 13331, 13337,
      13339, 13367, 13381, 13397, 13399, 13411, 13417, 13421, 13441, 13451, 13457, 13463,
      13469, 13477, 13487, 13499, 13513, 13523, 13537, 13553, 13567, 13577, 13591, 13597,
      13613, 13619, 13627, 13633, 13649, 13669, 13679, 13681, 13687, 13691, 13693, 13697,
      13709, 13711, 13721, 13723, 13729, 13751, 13757, 13759, 13763, 13781, 13789, 13799,
      13807, 13829, 13831, 13841, 13859, 13873, 13877, 13879, 13883, 13901, 13903, 13907,
      13913, 13921, 13931, 13933, 13963, 13967, 13997, 13999, 14009, 14011, 14029, 14033,
      14051, 14057, 14071, 14081, 14083, 14087, 14107, 14143, 14149, 14153, 14159, 14173,
      14177, 14197, 14207, 14221, 14243, 14249, 14251, 14281, 14293, 14303, 14321, 14323,
      14327, 14341, 14347, 14369, 14387, 14389, 14401, 14407, 14411, 14419, 14423, 14431,
      14437, 14447, 14449, 14461, 14479, 14489, 14503, 14519, 14533, 14537, 14543, 14549,
      14551, 14557, 14561, 14563, 14591, 14593, 14621, 14627, 14629, 14633, 14639, 14653,
      14657, 14669, 14683, 14699, 14713, 14717, 14723, 14731, 14737, 14741, 14747, 14753,
      14759, 14767, 14771, 14779, 14783, 14797, 14813, 14821, 14827, 14831, 14843, 14851,
      14867, 14869, 14879, 14887, 14891, 14897, 14923, 14929, 14939, 14947, 14951, 14957,
      14969, 14983, 15013, 15017, 15031, 15053, 15061, 15073, 15077, 15083, 15091, 15101,
      15107, 15121, 15131, 15137, 15139, 15149, 15161, 15173, 15187, 15193, 15199, 15217,
      15227, 15233, 15241, 15259, 15263, 15269, 15271, 15277, 15287, 15289, 15299, 15307,
      15313, 15319, 15329, 15331, 15349, 15359, 15361, 15373, 15377, 15383, 15391, 15401,
      15413, 15427, 15439, 15443, 15451, 15461, 15467, 15473, 15493, 15497, 15511, 15527,
      15541, 15551, 15559, 15569, 15581, 15583, 15601, 15607, 15619, 15629, 15641, 15643,
      15647, 15649, 15661, 15667, 15671, 15679, 15683, 15727, 15731, 15733, 15737, 15739,
      15749, 15761, 15767, 15773, 15787, 15791, 15797, 15803, 15809, 15817, 15823, 15859,
      15877, 15881, 15887, 15889, 15901, 15907, 15913, 15919, 15923, 15937, 15959, 15971,
      15973, 15991, 16001, 16007, 16033, 16057, 16061, 16063, 16067, 16069, 16073, 16087,
      16091, 16097, 16103, 16111, 16127, 16139, 16141, 16183, 16187, 16189, 16193, 16217,
      16223, 16229, 16231, 16249, 16253, 16267, 16273, 16301, 16319, 16333, 16339, 16349,
      16361, 16363, 16369, 16381, 16411, 16417, 16421, 16427, 16433, 16447, 16451, 16453,
      16477, 16481, 16487, 16493, 16519, 16529, 16547, 16553, 16561, 16567, 16573, 16603,
      16607, 16619, 16631, 16633, 16649, 16651, 16657, 16661, 16673, 16691, 16693, 16699,
      16703, 16729, 16741, 16747, 16759, 16763, 16787, 16811, 16823, 16829, 16831, 16843,
      16871, 16879, 16883, 16889, 16901, 16903, 16921, 16927, 16931, 16937, 16943, 16963,
      16979, 16981, 16987, 16993, 17011, 17021, 17027, 17029, 17033, 17041, 17047, 17053,
      17077, 17093, 17099, 17107, 17117, 17123, 17137, 17159, 17167, 17183, 17189, 17191,
      17203, 17207, 17209, 17231, 17239, 17257, 17291, 17293, 17299, 17317, 17321, 17327,
      17333, 17341, 17351, 17359, 17377, 17383, 17387, 17389, 17393, 17401, 17417, 17419,
      17431, 17443, 17449, 17467, 17471, 17477, 17483, 17489, 17491, 17497, 17509, 17519,
      17539, 17551, 17569, 17573, 17579, 17581, 17597, 17599, 17609, 17623, 17627, 17657,
      17659, 17669, 17681, 17683, 17707, 17713, 17729, 17737, 17747, 17749, 17761, 17783,
      17789, 17791, 17807, 17827, 17837, 17839, 17851, 17863>>

\* the members of first_primes, for "n in first_primes"
first_primes_set == {first_primes[i] : i \in DOMAIN first_primes}

\* first_primes[-1]
first_primes_last == first_primes[Len(first_primes)]

\* the default of is_prime's mr_rounds
mr_rounds == 25

\* the first while loop of miller_rabin: n - 1 = d * 2 ** r with d odd,
\* started from <<n - 1, 0>>
RECURSIVE mr_split(_, _)
mr_split(d, r) == IF d % 2 = 0 THEN mr_split(d \div 2, r + 1) ELSE <<d, r>>

\* the inner loop "for _ in range(1, r)" of miller_rabin from its i-th pass:
\* TRUE when it breaks on x == n - 1, FALSE when it runs out (the else branch)
RECURSIVE mr_squarings(_, _, _, _)
mr_squarings(x, i, r, n) ==
    IF i >= r THEN FALSE
    ELSE IF (x * x) % n = n - 1 THEN TRUE
    ELSE mr_squarings((x * x) % n, i + 1, r, n)

\* one pass of miller_rabin's outer loop with the witness a: TRUE when the
\* loop goes on to the next witness, FALSE when miller_rabin returns False
mr_witness_passes(n, d, r, a) ==
    LET body(x) == x = 1 \/ x = n - 1 \/ mr_squarings(x, 1, r, n)
    IN  body(pow(a, d, n))

\* is_prime(n) before miller_rabin divides by every table entry
is_prime_divisible(n) == \E i \in DOMAIN first_primes : n % first_primes[i] = 0

\* is_prime with "n < first_primes[-1]": the last table entry is then
\* divided by itself
is_prime_last_excluded(n) ==
    IF n < first_primes_last
    THEN [done |-> TRUE, ret |-> n \in first_primes_set]
    ELSE IF is_prime_divisible(n) THEN [done |-> TRUE, ret |-> FALSE]
    ELSE [done |-> FALSE, ret |-> FALSE]

\* is_prime(n) up to the call of miller_rabin: the boolean it returns (ret),
\* or done = FALSE when it goes on to miller_rabin(n, mr_rounds)
is_prime_begin(n) ==
    IF n <= first_primes_last
    THEN [done |-> TRUE, ret |-> n \in first_primes_set]
    ELSE IF is_prime_divisible(n) THEN [done |-> TRUE, ret |-> FALSE]
    ELSE [done |-> FALSE, ret |-> FALSE]

\* the booleans miller_rabin(n, k) can return over the witnesses its k
\* passes can draw: True when a witness passes (or k is 0), False when a
\* witness fails
miller_rabin_results(n, k) ==
    LET results(dr) ==
            {ok \in BOOLEAN :
                IF ok
                THEN k = 0 \/ \E a \in 2..(n - 2) :
                                mr_witness_passes(n, dr[1], dr[2], a)
                ELSE k > 0 /\ \E a \in 2..(n - 2) :
                                ~mr_witness_passes(n, dr[1], dr[2], a)}
    IN  results(mr_split(n - 1, 0))

\* the booleans is_prime(n) can return
is_prime_results(n) ==
    LET results(b) ==
            IF b.done THEN {b.ret} ELSE miller_rabin_results(n, mr_rounds)
    IN  results(is_prime_begin(n))

\* int.bit_length of n >= 0
RECURSIVE bit_length(_)
bit_length(n) == IF n = 0 THEN 0 ELSE 1 + bit_length(n \div 2)

\* n | 1 for n >= 0
or_one(n) == IF n % 2 = 0 THEN n + 1 ELSE n

\* the loop "while not is_prime(n): n += 2" of getprimeover entered with n:
\* the values it can leave with
RECURSIVE getprimeover_probe(_)
getprimeover_probe(n) ==
    LET leave(res) ==
            (IF TRUE \in res THEN {n} ELSE {})
                \cup (IF FALSE \in res THEN getprimeover_probe(n + 2) ELSE {})
    IN  leave(is_prime_results(n))

\* the values randfunc.randrange(2**(N-1), 2**N) can return
getprimeover_draws(N) == ipow(2, N - 1)..(ipow(2, N) - 1)

\* getprimeover(N), pure-Python path, when randrange returns x
getprimeover_from(x) == getprimeover_probe(or_one(x))

\* the values getprimeover(N) can return
getprimeover(N) == UNION {getprimeover_from(x) : x \in getprimeover_draws(N)}

-----------------------------------------------------------------------------
(* class PaillierPublicKey: construction *)

PaillierPublicKey(n) ==
    [g |-> n + 1, n |-> n, nsquare |-> n * n, max_int |-> (n \div 3) - 1]

\* PaillierPublicKey.__eq__
PublicKeyEq(k1, k2) == k1.n = k2.n

-----------------------------------------------------------------------------
(* class EncodedNumber *)

BASE == 16

EncodedNumber(public_key, encoding, exponent) ==
    [public_key |-> public_key, encoding |-> encoding, exponent |-> exponent]

NoEncoded == EncodedNumber(PaillierPublicKey(0), 0, 0)

\* encode with the range check off by one (>= for >)
encode_range_off_by_one(public_key, scalar, max_exponent) ==
    LET exponent == IF max_exponent = None THEN 0 ELSE min(max_exponent[1], 0)
        int_rep == scalar * ipow(BASE, 0 - exponent)
    IN  IF abs(int_rep) >= public_key.max_int
        THEN [ok |-> FALSE, err |-> ErrOutOfRange, enc |-> NoEncoded]
        ELSE [ok |-> TRUE, err |-> "none",
              enc |-> EncodedNumber(public_key, int_rep % public_key.n, exponent)]

\* EncodedNumber.encode(public_key, scalar, precision=None, max_exponent)
\* for an int scalar: prec_exponent is 0, so exponent <= 0 and the
\* Fraction product scalar * BASE ** -exponent is an integer.
encode(public_key, scalar, max_exponent) ==
    LET prec_exponent == 0
        exponent == IF max_exponent = None THEN prec_exponent
                    ELSE min(max_exponent[1], prec_exponent)
        int_rep == scalar * ipow(BASE, 0 - exponent)
    IN  IF abs(int_rep) > public_key.max_int
        THEN [ok |-> FALSE, err |-> ErrOutOfRange, enc |-> NoEncoded]
        ELSE [ok |-> TRUE, err |-> "none",
              enc |-> EncodedNumber(public_key, int_rep % public_key.n, exponent)]

\* decode taking the residue n - max_int for overflow (> for >=)
decode_negative_from_above(self) ==
    IF self.encoding >= self.public_key.n THEN Raise(ErrCorrupted)
    ELSE IF self.encoding > self.public_key.max_int
            /\ self.encoding <= self.public_key.n - self.public_key.max_int
    THEN Raise(ErrOverflow)
    ELSE LET mantissa == IF self.encoding <= self.public_key.max_int
                         THEN self.encoding
                         ELSE self.encoding - self.public_key.n
         IN  IF self.exponent >= 0
             THEN Ok(mantissa * ipow(BASE, self.exponent))
             ELSE OkDiv(mantissa, ipow(BASE, 0 - self.exponent))

\* EncodedNumber.decode(self)
decode(self) ==
    IF self.encoding >= self.public_key.n THEN Raise(ErrCorrupted)
    ELSE IF self.encoding > self.public_key.max_int
            /\ self.encoding < self.public_key.n - self.public_key.max_int
    THEN Raise(ErrOverflow)
    ELSE LET mantissa == IF self.encoding <= self.public_key.max_int
                         THEN self.encoding
                         ELSE self.encoding - self.public_key.n
         IN  IF self.exponent >= 0
             THEN Ok(mantissa * ipow(BASE, self.exponent))
             ELSE OkDiv(mantissa, ipow(BASE, 0 - self.exponent))

\* EncodedNumber.decrease_exponent_to(self, new_exp)
EncodedDecreaseExponentTo(self, new_exp) ==
    IF new_exp > self.exponent
    THEN [ok |-> FALSE, err |-> ErrNewExponent, enc |-> NoEncoded]
    ELSE LET factor == ipow(BASE, self.exponent - new_exp)
             new_enc == (self.encoding * factor) % self.public_key.n
         IN  [ok |-> TRUE, err |-> "none",
              enc |-> EncodedNumber(self.public_key, new_enc, new_exp)]

-----------------------------------------------------------------------------
(* class PaillierPublicKey: encryption *)

\* PaillierPublicKey.raw_encrypt(plaintext, r_value) with r_value given;
\* r_value=None is the same with r drawn by get_random_lt_n
raw_encrypt(self, plaintext, r) ==
    LET nude_ciphertext ==
            IF self.n - self.max_int <= plaintext /\ plaintext < self.n
            THEN LET neg_plaintext == self.n - plaintext
                     neg_ciphertext == (self.n * neg_plaintext + 1) % self.nsquare
                 IN  invert(neg_ciphertext, self.nsquare).val
            ELSE (self.n * plaintext + 1) % self.nsquare
        obfuscator == powmod(r, self.n, self.nsquare)
    IN  (nude_ciphertext * obfuscator) % self.nsquare

\* the values random.SystemRandom().randrange(1, self.n) can return
get_random_lt_n(self) == 1..(self.n - 1)

-----------------------------------------------------------------------------
(* class EncryptedNumber *)

\* EncryptedNumber.__init__: a new instance is never obfuscated
EncryptedNumber(public_key, ciphertext, exponent) ==
    [public_key |-> public_key, ciphertext |-> ciphertext,
     exponent |-> exponent, is_obfuscated |-> FALSE]

\* no instance (an unbound name, or no result because the call raised)
NoObj == EncryptedNumber(PaillierPublicKey(0), 0, 0)

\* obfuscate multiplying by r instead of r^n mod n^2
obfuscate_times_r(self, r) ==
    [self EXCEPT
        !.ciphertext = (self.ciphertext * r) % self.public_key.nsquare,
        !.is_obfuscated = TRUE]

\* EncryptedNumber.obfuscate(self), with r the value get_random_lt_n returned
obfuscate(self, r) ==
    LET r_pow_n == powmod(r, self.public_key.n, self.public_key.nsquare)
    IN  [self EXCEPT
            !.ciphertext = (self.ciphertext * r_pow_n) % self.public_key.nsquare,
            !.is_obfuscated = TRUE]

\* ciphertext obfuscating on every secure call, whatever the flag
ciphertext_ignores_flag(self, be_secure, r) ==
    LET ret(after) == [self |-> after, ret |-> after.ciphertext]
    IN  ret(IF be_secure THEN obfuscate(self, r) ELSE self)

\* EncryptedNumber.ciphertext(self, be_secure): the instance after the call
\* and the returned integer; r is drawn only when obfuscate is called
ciphertext(self, be_secure, r) ==
    LET ret(after) == [self |-> after, ret |-> after.ciphertext]
    IN  ret(IF be_secure /\ ~self.is_obfuscated THEN obfuscate(self, r) ELSE self)

\* _raw_add adding the two ciphertexts instead of multiplying them
raw_add_sum(self, e_a, e_b) == (e_a + e_b) % self.public_key.nsquare

\* EncryptedNumber._raw_add(self, e_a, e_b)
raw_add(self, e_a, e_b) == (e_a * e_b) % self.public_key.nsquare

\* _raw_mul reading self.ciphertext() with be_secure left at its default
raw_mul_secure(self, plaintext) ==
    LET large(c, neg_c) ==
            IF ~neg_c.ok
            THEN [ok |-> FALSE, err |-> neg_c.err, self |-> c.self, val |-> 0]
            ELSE [ok |-> TRUE, err |-> "none", self |-> c.self,
                  val |-> powmod(neg_c.val, self.public_key.n - plaintext,
                                 self.public_key.nsquare)]
        body(c) ==
            IF self.public_key.n - self.public_key.max_int <= plaintext
            THEN large(c, invert(c.ret, self.public_key.nsquare))
            ELSE [ok |-> TRUE, err |-> "none", self |-> c.self,
                  val |-> powmod(c.ret, plaintext, self.public_key.nsquare)]
    IN  IF plaintext < 0 \/ plaintext >= self.public_key.n
        THEN [ok |-> FALSE, err |-> ErrScalarBounds, self |-> self, val |-> 0]
        ELSE body(ciphertext(self, TRUE, self.public_key.n - 1))

\* EncryptedNumber._raw_mul(self, plaintext): the instance after the call
\* and the product, or the exception
raw_mul(self, plaintext) ==
    LET large(c, neg_c) ==
            IF ~neg_c.ok
            THEN [ok |-> FALSE, err |-> neg_c.err, self |-> c.self, val |-> 0]
            ELSE [ok |-> TRUE, err |-> "none", self |-> c.self,
                  val |-> powmod(neg_c.val, self.public_key.n - plaintext,
                                 self.public_key.nsquare)]
        body(c) ==
            IF self.public_key.n - self.public_key.max_int <= plaintext
            THEN large(c, invert(c.ret, self.public_key.nsquare))
            ELSE [ok |-> TRUE, err |-> "none", self |-> c.self,
                  val |-> powmod(c.ret, plaintext, self.public_key.nsquare)]
    IN  IF plaintext < 0 \/ plaintext >= self.public_key.n
        THEN [ok |-> FALSE, err |-> ErrScalarBounds, self |-> self, val |-> 0]
        ELSE body(ciphertext(self, FALSE, 1))

\* the outcome of a method of an EncryptedNumber: the receiver and the other
\* operand as the call leaves them, and the new instance (res) when it returns
Returned(self, other, res) ==
    [ok |-> TRUE, err |-> "none", self |-> self, other |-> other, res |-> res]

Raised(self, other, e) ==
    [ok |-> FALSE, err |-> e, self |-> self, other |-> other, res |-> NoObj]

\* __mul__ handing the receiver's obfuscation flag on to the product
mul_encoded_keeps_flag(self, encoding) ==
    LET body(product) ==
            IF ~product.ok THEN Raised(product.self, encoding, product.err)
            ELSE Returned(product.self, encoding,
                          [EncryptedNumber(self.public_key, product.val,
                                           self.exponent + encoding.exponent)
                             EXCEPT !.is_obfuscated = self.is_obfuscated])
    IN  body(raw_mul(self, encoding.encoding))

\* EncryptedNumber.__mul__(self, other) for an EncodedNumber other
mul_encoded(self, encoding) ==
    LET body(product) ==
            IF ~product.ok THEN Raised(product.self, encoding, product.err)
            ELSE Returned(product.self, encoding,
                          EncryptedNumber(self.public_key, product.val,
                                          self.exponent + encoding.exponent))
    IN  body(raw_mul(self, encoding.encoding))

\* EncryptedNumber.__mul__(self, other) for an int other
mul(self, other) ==
    LET body(encoding) ==
            IF ~encoding.ok THEN Raised(self, other, encoding.err)
            ELSE [mul_encoded(self, encoding.enc) EXCEPT !.other = other]
    IN  body(encode(self.public_key, other, None))

\* EncryptedNumber.decrease_exponent_to(self, new_exp)
decrease_exponent_to(self, new_exp) ==
    LET body(multiplied) ==
            IF ~multiplied.ok THEN Raised(multiplied.self, new_exp, multiplied.err)
            ELSE Returned(multiplied.self, new_exp,
                          [multiplied.res EXCEPT !.exponent = new_exp])
    IN  IF new_exp > self.exponent THEN Raised(self, new_exp, ErrNewExponent)
        ELSE body(mul(self, ipow(BASE, self.exponent - new_exp)))

\* the exponent alignment of _add_encoded and _add_encrypted, for the
\* receiver: a is self, or a new instance when self has the larger exponent
align(self, other_exponent) ==
    IF self.exponent > other_exponent
    THEN decrease_exponent_to(self, other_exponent)
    ELSE Returned(self, other_exponent, self)

\* _add_encrypted without the public-key comparison
add_encrypted_unchecked(self, other) ==
    LET sum(ca, cb) ==
            EncryptedNumber(ca.self.public_key, raw_add(ca.self, ca.ret, cb.ret),
                            ca.self.exponent)
        body(da, db) ==
            IF ~da.ok THEN Raised(da.self, other, da.err)
            ELSE IF ~db.ok THEN Raised(self, db.self, db.err)
            ELSE Returned(self, other,
                          sum(ciphertext(da.res, FALSE, 1),
                              ciphertext(db.res, FALSE, 1)))
    IN  body(align(self, other.exponent), align(other, self.exponent))

\* EncryptedNumber._add_encrypted(self, other)
add_encrypted(self, other) ==
    LET sum(ca, cb) ==
            EncryptedNumber(ca.self.public_key, raw_add(ca.self, ca.ret, cb.ret),
                            ca.self.exponent)
        \* a and b after a.ciphertext(False) and b.ciphertext(False); self or
        \* other is the instance read unless a new aligned one replaced it
        combine(da, db, ca, cb) ==
            Returned(IF self.exponent > other.exponent THEN da.self ELSE ca.self,
                     IF self.exponent < other.exponent THEN db.self ELSE cb.self,
                     sum(ca, cb))
        body(da, db) ==
            IF ~da.ok THEN Raised(da.self, other, da.err)
            ELSE IF ~db.ok THEN Raised(self, db.self, db.err)
            ELSE combine(da, db, ciphertext(da.res, FALSE, 1),
                         ciphertext(db.res, FALSE, 1))
    IN  IF ~PublicKeyEq(self.public_key, other.public_key)
        THEN Raised(self, other, ErrKeyAddEncrypted)
        ELSE body(align(self, other.exponent), align(other, self.exponent))

\* EncryptedNumber._add_encoded(self, encoded)
add_encoded(self, encoded) ==
    LET b == IF self.exponent < encoded.exponent
             THEN EncodedDecreaseExponentTo(encoded, self.exponent).enc
             ELSE encoded
        combine(da, ca) ==
            Returned(IF self.exponent > encoded.exponent THEN da.self ELSE ca.self,
                     encoded,
                     EncryptedNumber(ca.self.public_key,
                                     raw_add(ca.self, ca.ret,
                                             raw_encrypt(ca.self.public_key,
                                                         b.encoding, 1)),
                                     ca.self.exponent))
        body(da) ==
            IF ~da.ok THEN Raised(da.self, encoded, da.err)
            ELSE combine(da, ciphertext(da.res, FALSE, 1))
    IN  IF ~PublicKeyEq(self.public_key, encoded.public_key)
        THEN Raised(self, encoded, ErrKeyAddEncoded)
        ELSE body(align(self, encoded.exponent))

\* EncryptedNumber._add_scalar(self, scalar) for an int scalar
add_scalar(self, scalar) ==
    LET body(encoded) ==
            IF ~encoded.ok THEN Raised(self, scalar, encoded.err)
            ELSE [add_encoded(self, encoded.enc) EXCEPT !.other = scalar]
    IN  body(encode(self.public_key, scalar, Some(self.exponent)))

\* EncryptedNumber.__sub__(self, other) for an EncryptedNumber other:
\* self + (other * -1)
sub(self, other) ==
    LET body(neg) ==
            IF ~neg.ok THEN Raised(self, neg.self, neg.err)
            ELSE [add_encrypted(self, neg.res) EXCEPT !.other = neg.self]
    IN  body(mul(other, 0 - 1))

\* EncryptedNumber.__sub__(self, other) for an int other: other * -1 is the
\* product of two ints
sub_scalar(self, other) == add_scalar(self, other * (0 - 1))

-----------------------------------------------------------------------------
(* class PaillierPublicKey: encrypt *)

\* PaillierPublicKey.encrypt_encoded(encoding, r_value): r_value is None or
\* Some(r); r is the value obfuscate() draws when r_value is None
encrypt_encoded(self, encoding, r_value, r) ==
    LET body(encrypted_number) ==
            IF r_value = None THEN obfuscate(encrypted_number, r)
            ELSE encrypted_number
    IN  body(EncryptedNumber(self,
                             raw_encrypt(self, encoding.encoding,
                                         IF r_value = None THEN 1 ELSE r_value[1]),
                             encoding.exponent))

\* PaillierPublicKey.encrypt(value, precision=None, r_value) for an int value
encrypt(self, value, r_value, r) ==
    LET body(encoding) ==
            IF ~encoding.ok THEN Raised(NoObj, value, encoding.err)
            ELSE Returned(NoObj, value,
                          encrypt_encoded(self, encoding.enc, r_value, r))
    IN  body(encode(self, value, None))

-----------------------------------------------------------------------------
(* class PaillierPrivateKey *)

\* PaillierPrivateKey.l_function(x, p): Python's floor division
l_function(x, p) == (x - 1) \div p

\* PaillierPrivateKey.h_function(x, xsquare)
h_function(public_key, x, xsquare) ==
    invert(l_function(powmod(public_key.g, x - 1, xsquare), x), x)

ErrKeyFactors == "ValueError: given public key does not match the given p and q."

ErrKeySameFactors == "ValueError: p and q have to be different"

NoKey ==
    [public_key |-> PaillierPublicKey(0), p |-> 0, q |-> 0, psquare |-> 0,
     qsquare |-> 0, p_inverse |-> 0, hp |-> 0, hq |-> 0]

\* PaillierPrivateKey.__init__(public_key, p, q)
\* PaillierPrivateKey.__init__ that stores p and q as given
PaillierPrivateKey_as_given(public_key, p, q) ==
    LET fields(sp, sq, p_inverse, hp, hq) ==
            IF ~p_inverse.ok THEN [ok |-> FALSE, err |-> p_inverse.err, key |-> NoKey]
            ELSE IF ~hp.ok THEN [ok |-> FALSE, err |-> hp.err, key |-> NoKey]
            ELSE IF ~hq.ok THEN [ok |-> FALSE, err |-> hq.err, key |-> NoKey]
            ELSE [ok |-> TRUE, err |-> "none",
                  key |-> [public_key |-> public_key, p |-> sp, q |-> sq,
                           psquare |-> sp * sp, qsquare |-> sq * sq,
                           p_inverse |-> p_inverse.val,
                           hp |-> hp.val, hq |-> hq.val]]
        ordered(sp, sq) ==
            fields(sp, sq, invert(sp, sq), h_function(public_key, sp, sp * sp),
                   h_function(public_key, sq, sq * sq))
    IN  IF p * q # public_key.n
        THEN [ok |-> FALSE, err |-> ErrKeyFactors, key |-> NoKey]
        ELSE IF p = q THEN [ok |-> FALSE, err |-> ErrKeySameFactors, key |-> NoKey]
        ELSE ordered(p, q)

PaillierPrivateKey(public_key, p, q) ==
    LET fields(sp, sq, p_inverse, hp, hq) ==
            IF ~p_inverse.ok THEN [ok |-> FALSE, err |-> p_inverse.err, key |-> NoKey]
            ELSE IF ~hp.ok THEN [ok |-> FALSE, err |-> hp.err, key |-> NoKey]
            ELSE IF ~hq.ok THEN [ok |-> FALSE, err |-> hq.err, key |-> NoKey]
            ELSE [ok |-> TRUE, err |-> "none",
                  key |-> [public_key |-> public_key, p |-> sp, q |-> sq,
                           psquare |-> sp * sp, qsquare |-> sq * sq,
                           p_inverse |-> p_inverse.val,
                           hp |-> hp.val, hq |-> hq.val]]
        ordered(sp, sq) ==
            fields(sp, sq, invert(sp, sq), h_function(public_key, sp, sp * sp),
                   h_function(public_key, sq, sq * sq))
    IN  IF p * q # public_key.n
        THEN [ok |-> FALSE, err |-> ErrKeyFactors, key |-> NoKey]
        ELSE IF p = q THEN [ok |-> FALSE, err |-> ErrKeySameFactors, key |-> NoKey]
        ELSE IF q < p THEN ordered(q, p) ELSE ordered(p, q)

\* PaillierPrivateKey.crt(mp, mq)
crt(self, mp, mq) ==
    LET u == ((mq - mp) * self.p_inverse) % self.q
    IN  mp + (u * self.p)

\* PaillierPrivateKey.raw_decrypt(ciphertext)
raw_decrypt(self, c) ==
    LET decrypt_to_p ==
            (l_function(powmod(c, self.p - 1, self.psquare), self.p) * self.hp) % self.p
        decrypt_to_q ==
            (l_function(powmod(c, self.q - 1, self.qsquare), self.q) * self.hq) % self.q
    IN  crt(self, decrypt_to_p, decrypt_to_q)

\* PaillierPrivateKey.decrypt(encrypted_number): decrypt_encoded, then decode;
\* the outcome, and the instance as the call leaves it
decrypt(self, encrypted_number) ==
    LET body(c) ==
            [out |-> decode(EncodedNumber(self.public_key, raw_decrypt(self, c.ret),
                                          c.self.exponent)),
             self |-> c.self]
    IN  IF ~PublicKeyEq(self.public_key, encrypted_number.public_key)
        THEN [out |-> Raise(ErrKeyDecrypt), self |-> encrypted_number]
        ELSE body(ciphertext(encrypted_number, FALSE, 1))

-----------------------------------------------------------------------------
(* Spec: one EncryptedNumber followed through its life.  The name x is bound *)
(* by PublicKey.encrypt and then rebound by x = x + v and x = x * k; each   *)
(* action is one call of the public surface.                                *)

\* the names instances are bound to
Slots == {"x", "y", "z"}

\* the prime pairs keys are built from
KeyPairs == {<<3, 5>>, <<3, 7>>}

KeyOf(pq) == PaillierPrivateKey(PaillierPublicKey(pq[1] * pq[2]), pq[1], pq[2]).key

\* how an instance came about: "enc" = PublicKey.encrypt(val), "add" =
\* encrypt(a) + encrypt(b) with val = a + b, "mul" = encrypt(a) * k with
\* val = a * k, "etc" = anything else; "raised" = the addition that was to
\* bind the name raised
Ghost(kind, val) == [kind |-> kind, val |-> val]

NoGhost == Ghost("none", 0)

\* the most recent call: the names of its operands, its integer argument, the
\* modulus of the key it was given, and its outcome
Call(op, a, b, arg, key, out) ==
    [op |-> op, a |-> a, b |-> b, arg |-> arg, key |-> key, out |-> out]

Bound(s) == heap[s] # NoObj

public_key == private_key.public_key

LibIdle == /\ aggregation = NoObj
           /\ stdin = <<>>
           /\ pc = "lib"

Init ==
    /\ private_key \in {KeyOf(pq) : pq \in KeyPairs}
    /\ heap = [s \in Slots |-> NoObj]
    /\ ghost = [s \in Slots |-> NoGhost]
    /\ last = Call("none", "-", "-", 0, 0, Ok(0))
    /\ LibIdle

\* what a call left in last.out: the new instance's ciphertext, or the exception
Outcome(m) == IF m.ok THEN Ok(m.res.ciphertext) ELSE Raise(m.err)

\* d = pk.encrypt(v), for a name d not bound yet
Encrypt(pk, d, v, r) ==
    LET call(e) ==
            /\ last' = Call("encrypt", d, "-", v, pk.n, Outcome(e))
            /\ heap' = IF e.ok THEN [heap EXCEPT ![d] = e.res] ELSE heap
            /\ ghost' = IF e.ok THEN [ghost EXCEPT ![d] = Ghost("enc", v)] ELSE ghost
    IN  /\ ~Bound(d)
        /\ call(encrypt(pk, v, None, r))
        /\ UNCHANGED <<private_key, aggregation, stdin, pc>>

\* EncodedNumber.encode(pk, v): the residue, or the exception
Encode(pk, v) ==
    LET call(e) ==
            last' = Call("encode", "-", "-", v, pk.n,
                         IF e.ok THEN Ok(e.enc.encoding) ELSE Raise(e.err))
    IN  /\ call(encode(pk, v, None))
        /\ UNCHANGED <<private_key, heap, ghost, aggregation, stdin, pc>>

\* s.obfuscate()
Obfuscate(s, r) ==
    /\ Bound(s)
    /\ heap' = [heap EXCEPT ![s] = obfuscate(heap[s], r)]
    /\ ghost' = [ghost EXCEPT ![s] = Ghost("etc", 0)]
    /\ last' = Call("obfuscate", s, "-", 0, 0, Ok(0))
    /\ UNCHANGED <<private_key, aggregation, stdin, pc>>

\* s.ciphertext(be_secure)
Ciphertext(s, be_secure, r) ==
    LET call(c) ==
            /\ heap' = [heap EXCEPT ![s] = c.self]
            /\ ghost' = IF c.self = heap[s] THEN ghost
                        ELSE [ghost EXCEPT ![s] = Ghost("etc", 0)]
            /\ last' = Call(IF be_secure THEN "ciphertext(True)"
                            ELSE "ciphertext(False)", s, "-", 0, 0, Ok(c.ret))
    IN  /\ Bound(s)
        /\ call(ciphertext(heap[s], be_secure, r))
        /\ UNCHANGED <<private_key, aggregation, stdin, pc>>

\* the heap after d = <call on a and b>: the operands as the call left them,
\* then the name d rebound when the call returned
Rebind(a, b, d, m) ==
    LET bind(h) == IF m.ok THEN [h EXCEPT ![d] = m.res] ELSE h
    IN  bind(IF b \in DOMAIN heap THEN [heap EXCEPT ![a] = m.self, ![b] = m.other]
             ELSE [heap EXCEPT ![a] = m.self])

\* d = a + b for two EncryptedNumbers
AddEncrypted(a, b, d) ==
    LET call(m) ==
            /\ heap' = Rebind(a, b, d, m)
            /\ ghost' = IF ~m.ok THEN [ghost EXCEPT ![d] = Ghost("raised", 0)]
                        ELSE IF ghost[a].kind = "enc" /\ ghost[b].kind = "enc"
                        THEN [ghost EXCEPT
                                ![d] = Ghost("add", ghost[a].val + ghost[b].val)]
                        ELSE [ghost EXCEPT ![d] = Ghost("etc", 0)]
            /\ last' = Call("add", a, b, 0, 0, Outcome(m))
    IN  /\ Bound(a) /\ Bound(b) /\ a # b
        /\ call(add_encrypted(heap[a], heap[b]))
        /\ UNCHANGED <<private_key, aggregation, stdin, pc>>

\* d = a + v for an int v
AddScalar(a, v, d) ==
    LET call(m) ==
            /\ heap' = Rebind(a, "-", d, m)
            /\ ghost' = IF m.ok THEN [ghost EXCEPT ![d] = Ghost("etc", 0)] ELSE ghost
            /\ last' = Call("add_scalar", a, "-", v, 0, Outcome(m))
    IN  /\ Bound(a)
        /\ call(add_scalar(heap[a], v))
        /\ UNCHANGED <<private_key, aggregation, stdin, pc>>

\* d = a + EncodedNumber.encode(pk, v) for an int v the key pk can encode
AddEncoded(a, pk, v, d) ==
    LET call(m) ==
            /\ heap' = Rebind(a, "-", d, m)
            /\ ghost' = IF m.ok THEN [ghost EXCEPT ![d] = Ghost("etc", 0)] ELSE ghost
            /\ last' = Call("add_encoded", a, "-", v, pk.n, Outcome(m))
    IN  /\ Bound(a)
        /\ encode(pk, v, None).ok
        /\ call(add_encoded(heap[a], encode(pk, v, None).enc))
        /\ UNCHANGED <<private_key, aggregation, stdin, pc>>

\* d = a * k for an int k
Mul(a, k, d) ==
    LET call(m) ==
            /\ heap' = Rebind(a, "-", d, m)
            /\ ghost' = IF ~m.ok THEN ghost
                        ELSE IF ghost[a].kind = "enc"
                        THEN [ghost EXCEPT ![d] = Ghost("mul", ghost[a].val * k)]
                        ELSE [ghost EXCEPT ![d] = Ghost("etc", 0)]
            /\ last' = Call("mul", a, "-", k, 0, Outcome(m))
    IN  /\ Bound(a)
        /\ call(mul(heap[a], k))
        /\ UNCHANGED <<private_key, aggregation, stdin, pc>>

\* key.decrypt(s)
Decrypt(key, s) ==
    LET call(m) ==
            /\ heap' = [heap EXCEPT ![s] = m.self]
            /\ last' = Call("decrypt", s, "-", 0, key.public_key.n, m.out)
    IN  /\ Bound(s)
        /\ call(decrypt(key, heap[s]))
        /\ UNCHANGED <<private_key, ghost, aggregation, stdin, pc>>

Next ==
    \/ \E v \in Values, r \in get_random_lt_n(public_key) : Encrypt(public_key, "x", v, r)
    \/ \E r \in get_random_lt_n(public_key) : Obfuscate("x", r)
    \/ \E b \in BOOLEAN, r \in get_random_lt_n(public_key) : Ciphertext("x", b, r)
    \/ \E v \in Values : AddScalar("x", v, "x")
    \/ \E k \in Values : Mul("x", k, "x")
    \/ Decrypt(private_key, "x")

Spec == Init /\ [][Next]_vars

-----------------------------------------------------------------------------
(* SpecCodec: the fixed-point codec on integers, and encrypt on top of it,  *)
(* offered every integer a little beyond the range of the largest key.      *)

\* integers offered to encode: -MaxEnc..MaxEnc
MaxEnc == 12

CodecValues == (0 - MaxEnc)..MaxEnc

CodecKeyPairs == {<<3, 5>>, <<3, 7>>, <<5, 7>>}

InitCodec ==
    /\ private_key \in {KeyOf(pq) : pq \in CodecKeyPairs}
    /\ heap = [s \in Slots |-> NoObj]
    /\ ghost = [s \in Slots |-> NoGhost]
    /\ last = Call("none", "-", "-", 0, 0, Ok(0))
    /\ LibIdle

NextCodec ==
    \/ \E v \in CodecValues : Encode(public_key, v)
    \/ \E v \in CodecValues, r \in get_random_lt_n(public_key) :
          Encrypt(public_key, "x", v, r)

SpecCodec == InitCodec /\ [][NextCodec]_vars

-----------------------------------------------------------------------------
(* SpecAdd: two instances x and y, each encrypted once under either of two  *)
(* public keys, added into z, and decrypted with either private key; an     *)
(* EncodedNumber of either key added to x.                                  *)

\* plaintext integers offered to encrypt and encode: -MaxAddVal..MaxAddVal
MaxAddVal == 1

AddValues == (0 - MaxAddVal)..MaxAddVal

PrivateKeys == {KeyOf(pq) : pq \in KeyPairs}

PublicKeys == {k.public_key : k \in PrivateKeys}

NextAdd ==
    \/ \E pk \in PublicKeys, d \in {"x", "y"}, v \in AddValues :
          \E r \in get_random_lt_n(pk) : Encrypt(pk, d, v, r)
    \/ \E a \in {"x", "y"}, b \in {"x", "y"} :
          ~Bound("z") /\ AddEncrypted(a, b, "z")
    \/ \E pk \in PublicKeys, v \in AddValues :
          ~Bound("z") /\ AddEncoded("x", pk, v, "z")
    \/ \E key \in PrivateKeys, s \in {"x", "z"} : Decrypt(key, s)

\* private_key is the receiver's key; the other key pair is a stranger's
InitAdd ==
    /\ private_key = KeyOf(<<3, 5>>)
    /\ heap = [s \in Slots |-> NoObj]
    /\ ghost = [s \in Slots |-> NoGhost]
    /\ last = Call("none", "-", "-", 0, 0, Ok(0))
    /\ LibIdle

SpecAdd == InitAdd /\ [][NextAdd]_vars

-----------------------------------------------------------------------------
(* SpecAlign: three addends x, y, z of pairwise different exponents under   *)
(* one key, and the three groupings (x + y) + z, x + (y + z), (z + x) + y.  *)
(* The key is built from 3 and 17: max_int = 16 = BASE, so that aligning by *)
(* one exponent step is within the key's range and by two steps is not.     *)

AlignKeyPair == <<3, 17>>

\* mantissas of the addends: -MaxMantissa..MaxMantissa
MaxMantissa == 1

Mantissas == (0 - MaxMantissa)..MaxMantissa

\* exponents of the addends: 0..MaxExponent
MaxExponent == 2

Exponents == 0..MaxExponent

\* the r_value the addends are encrypted with, both coprime to 51
AlignRs == {1, 2}

Addends == {"x", "y", "z"}

\* d = a + b: the first additions and the second additions of the groupings
PairSums ==
    {[a |-> "x", b |-> "y", d |-> "xy"],
     [a |-> "y", b |-> "z", d |-> "yz"],
     [a |-> "z", b |-> "x", d |-> "zx"]}

Totals ==
    {[a |-> "xy", b |-> "z", d |-> "xy_z"],
     [a |-> "x", b |-> "yz", d |-> "x_yz"],
     [a |-> "zx", b |-> "y", d |-> "zx_y"]}

AlignSlots == Addends \cup {g.d : g \in PairSums \cup Totals}

\* d = pk.encrypt_encoded(EncodedNumber(pk, m % n, e), r_value=r), for a name
\* d not bound yet and an exponent no other addend has
EncryptEncoded(pk, d, m, e, r) ==
    LET call(res) ==
            /\ heap' = [heap EXCEPT ![d] = res]
            /\ ghost' = [ghost EXCEPT ![d] = Ghost("etc", 0)]
            /\ last' = Call("encrypt_encoded", d, "-", m, pk.n, Ok(res.ciphertext))
    IN  /\ ~Bound(d)
        /\ \A s \in Addends : Bound(s) => heap[s].exponent # e
        /\ call(encrypt_encoded(pk, EncodedNumber(pk, m % pk.n, e), Some(r), 1))
        /\ UNCHANGED <<private_key, aggregation, stdin, pc>>

InitAlign ==
    /\ private_key = KeyOf(AlignKeyPair)
    /\ heap = [s \in AlignSlots |-> NoObj]
    /\ ghost = [s \in AlignSlots |-> NoGhost]
    /\ last = Call("none", "-", "-", 0, 0, Ok(0))
    /\ LibIdle

NextAlign ==
    \/ \E d \in Addends, m \in Mantissas, e \in Exponents, r \in AlignRs :
          EncryptEncoded(public_key, d, m, e, r)
    \/ \E g \in PairSums \cup Totals :
          /\ \A s \in Addends : Bound(s)
          /\ ghost[g.a].kind # "none" /\ ghost[g.d].kind = "none"
          /\ AddEncrypted(g.a, g.b, g.d)

SpecAlign == InitAlign /\ [][NextAlign]_vars

-----------------------------------------------------------------------------
(* SpecDriver: the aggregation driver at the end of the file.  stdin holds  *)
(* the lines the senders wrote, each the ciphertext of public_key.encrypt   *)
(* of an integer; ghost keeps the sum of those integers, how many there     *)
(* were, and whether every sender's r was coprime to n.                     *)

\* the primes p and q of the data receiver, and n = p * q
DriverKeyPair == <<3, 5>>

driver_n == DriverKeyPair[1] * DriverKeyPair[2]

\* at most MaxLines lines on stdin
MaxLines == 2

\* each line encrypts an integer in -MaxLineVal..MaxLineVal
MaxLineVal == 3

LineValues == (0 - MaxLineVal)..MaxLineVal

\* the r the senders drew from randrange(1, n): three coprime to n, and 3
SenderRs == {1, 2, 3, 7}

RECURSIVE SumOf(_)
SumOf(ms) == IF ms = <<>> THEN 0 ELSE ms[1].m + SumOf(Tail(ms))

\* the line a sender writes for the integer m with the draw r
LineOf(pk, m, r) == encrypt(pk, m, None, r).res.ciphertext

InitDriver ==
    /\ \E k \in 0..MaxLines :
          \E ms \in [1..k -> [m : LineValues, r : SenderRs]] :
             /\ stdin = [i \in 1..k |-> LineOf(PaillierPublicKey(driver_n), ms[i].m, ms[i].r)]
             /\ ghost = [kind |-> IF \A i \in 1..k : IsUnit(ms[i].r, driver_n)
                                  THEN "valid" ELSE "invalid",
                         val |-> SumOf(ms), count |-> k]
    /\ private_key = NoKey
    /\ heap = [s \in Slots |-> NoObj]
    /\ last = Call("none", "-", "-", 0, 0, Ok(0))
    /\ aggregation = PyInt(0)
    /\ pc = "loop"

\* aggregation + lineClass: int.__add__ returns NotImplemented for the int 0,
\* so __radd__ adds the scalar 0 to lineClass; an EncryptedNumber aggregation
\* goes through __add__ to _add_encrypted
iadd(agg, lineClass) ==
    IF "int" \in DOMAIN agg THEN add_scalar(lineClass, agg.int)
    ELSE add_encrypted(agg, lineClass)

\* one iteration of "for line in sys.stdin"
ReadLine ==
    LET call(m) ==
            /\ aggregation' = IF m.ok THEN m.res ELSE aggregation
            /\ pc' = IF m.ok THEN "loop" ELSE "raised"
            /\ last' = Call("iadd", "-", "-", Head(stdin), driver_n, Outcome(m))
    IN  /\ pc = "loop"
        /\ stdin # <<>>
        /\ stdin' = Tail(stdin)
        /\ call(iadd(aggregation,
                     EncryptedNumber(PaillierPublicKey(driver_n), Head(stdin), 0)))
        /\ UNCHANGED <<private_key, heap, ghost>>

\* the data receiver: the private key is built and decrypt(aggregation) printed
Receive ==
    LET key == PaillierPrivateKey(PaillierPublicKey(driver_n),
                                  DriverKeyPair[1], DriverKeyPair[2]).key
        print(out) ==
            /\ last' = Call("print", "-", "-", 0, driver_n, out)
            /\ pc' = IF out.ok THEN "done" ELSE "raised"
    IN  /\ pc = "loop"
        /\ stdin = <<>>
        /\ private_key' = key
        /\ print(IF "int" \in DOMAIN aggregation THEN Raise(ErrNoAttribute)
                 ELSE decrypt(key, aggregation).out)
        /\ UNCHANGED <<heap, ghost, aggregation, stdin>>

NextDriver == ReadLine \/ Receive

SpecDriver == InitDriver /\ [][NextDriver]_vars

-----------------------------------------------------------------------------
(* SpecOps: the operators of an EncryptedNumber x, with a second operand y  *)
(* of the same key; x and y are made once, fresh or obfuscated, at either   *)
(* of two exponents, every operator binds its result to z, and x is         *)
(* obfuscated and revealed in between.  The key is the one of SpecAlign, so *)
(* that an alignment by one exponent step goes through.                     *)

\* mantissas of x and y and the scalars offered: -MaxOpVal..MaxOpVal
MaxOpVal == 1

OpValues == (0 - MaxOpVal)..MaxOpVal

\* exponents of x and y: 0..MaxOpExponent
MaxOpExponent == 1

OpExponents == 0..MaxOpExponent

\* the draws of get_random_lt_n followed here: 1 and n - 1
OpRs(pk) == {1, pk.n - 1}

\* d = pk.encrypt_encoded(EncodedNumber(pk, m % n, e), r_value): with an
\* r_value the instance is as the constructor made it, with None it has been
\* obfuscated with the draw r
New(pk, d, m, e, r_value, r) ==
    LET call(res) ==
            /\ heap' = [heap EXCEPT ![d] = res]
            /\ ghost' = [ghost EXCEPT ![d] = Ghost("etc", 0)]
            /\ last' = Call(IF r_value = None THEN "encrypt_encoded(None)"
                            ELSE "encrypt_encoded(r_value)",
                            d, "-", m, pk.n, Ok(res.ciphertext))
    IN  /\ ~Bound(d)
        /\ call(encrypt_encoded(pk, EncodedNumber(pk, m % pk.n, e), r_value, r))
        /\ UNCHANGED <<private_key, aggregation, stdin, pc>>

\* d = a - b for two EncryptedNumbers
Sub(a, b, d) ==
    LET call(m) ==
            /\ heap' = Rebind(a, b, d, m)
            /\ ghost' = IF m.ok THEN [ghost EXCEPT ![d] = Ghost("etc", 0)] ELSE ghost
            /\ last' = Call("sub", a, b, 0, 0, Outcome(m))
    IN  /\ Bound(a) /\ Bound(b) /\ a # b
        /\ call(sub(heap[a], heap[b]))
        /\ UNCHANGED <<private_key, aggregation, stdin, pc>>

\* d = a - v for an int v
SubScalar(a, v, d) ==
    LET call(m) ==
            /\ heap' = Rebind(a, "-", d, m)
            /\ ghost' = IF m.ok THEN [ghost EXCEPT ![d] = Ghost("etc", 0)] ELSE ghost
            /\ last' = Call("sub_scalar", a, "-", v, 0, Outcome(m))
    IN  /\ Bound(a)
        /\ call(sub_scalar(heap[a], v))
        /\ UNCHANGED <<private_key, aggregation, stdin, pc>>

\* d = a.decrease_exponent_to(new_exp)
DecreaseExponentTo(a, new_exp, d) ==
    LET call(m) ==
            /\ heap' = Rebind(a, "-", d, m)
            /\ ghost' = IF m.ok THEN [ghost EXCEPT ![d] = Ghost("etc", 0)] ELSE ghost
            /\ last' = Call("decrease_exponent_to", a, "-", new_exp, 0, Outcome(m))
    IN  /\ Bound(a)
        /\ call(decrease_exponent_to(heap[a], new_exp))
        /\ UNCHANGED <<private_key, aggregation, stdin, pc>>

InitOps ==
    /\ private_key = KeyOf(AlignKeyPair)
    /\ heap = [s \in Slots |-> NoObj]
    /\ ghost = [s \in Slots |-> NoGhost]
    /\ last = Call("none", "-", "-", 0, 0, Ok(0))
    /\ LibIdle

NextOps ==
    \/ \E d \in {"x", "y"}, m \in OpValues, e \in OpExponents :
          \E r_value \in {None, Some(1)}, r \in OpRs(public_key) :
             New(public_key, d, m, e, r_value, r)
    \/ \E r \in OpRs(public_key) : Obfuscate("x", r)
    \/ \E b \in BOOLEAN, r \in OpRs(public_key) : Ciphertext("x", b, r)
    \/ AddEncrypted("x", "y", "z")
    \/ \E v \in OpValues : AddEncoded("x", public_key, v, "z")
    \/ \E v \in OpValues : AddScalar("x", v, "z")
    \/ \E k \in OpValues : Mul("x", k, "z")
    \/ Sub("x", "y", "z")
    \/ \E v \in OpValues : SubScalar("x", v, "z")
    \/ \E e \in (0 - 1)..MaxOpExponent : DecreaseExponentTo("x", e, "z")
    \/ Decrypt(private_key, "x")

SpecOps == InitOps /\ [][NextOps]_vars

-----------------------------------------------------------------------------
(* SpecFold: the driver's fold over two or more lines, each a valid         *)
(* encryption (r coprime to n) of an integer the key can encrypt.           *)

\* two to MaxFoldLines lines on stdin
MaxFoldLines == 3

\* every integer v with |v| <= max_int
FoldValues ==
    (0 - PaillierPublicKey(driver_n).max_int)..PaillierPublicKey(driver_n).max_int

\* the r the senders drew, both coprime to n
FoldRs == {1, 2}

InitFold ==
    /\ \E k \in 2..MaxFoldLines :
          \E ms \in [1..k -> [m : FoldValues, r : FoldRs]] :
             /\ stdin = [i \in 1..k |-> LineOf(PaillierPublicKey(driver_n), ms[i].m, ms[i].r)]
             /\ ghost = [kind |-> "valid", val |-> SumOf(ms), count |-> k]
    /\ private_key = NoKey
    /\ heap = [s \in Slots |-> NoObj]
    /\ last = Call("none", "-", "-", 0, 0, Ok(0))
    /\ aggregation = PyInt(0)
    /\ pc = "loop"

SpecFold == InitFold /\ [][NextDriver]_vars

-----------------------------------------------------------------------------
(* SpecPowmod: powmod called with small arguments of either sign; ghost     *)
(* holds the arguments of the call.                                         *)

\* bases and moduli in -MaxPowArg..MaxPowArg, exponents in 0..MaxPowArg
MaxPowArg == 3

PowArgs == (0 - MaxPowArg)..MaxPowArg

InitPowmod ==
    /\ private_key = NoKey
    /\ heap = [s \in Slots |-> NoObj]
    /\ ghost = [a |-> 0, b |-> 0, c |-> 1]
    /\ last = Call("none", "-", "-", 0, 0, Ok(0))
    /\ LibIdle

\* powmod(a, b, c)
Powmod(a, b, c) ==
    /\ last' = Call("powmod", "-", "-", 0, 0, powmod_any(a, b, c))
    /\ ghost' = [a |-> a, b |-> b, c |-> c]
    /\ UNCHANGED <<private_key, heap, aggregation, stdin, pc>>

NextPowmod == \E a \in PowArgs, b \in 0..MaxPowArg, c \in PowArgs : Powmod(a, b, c)

SpecPowmod == InitPowmod /\ [][NextPowmod]_vars

-----------------------------------------------------------------------------
(* SpecEncoded: one EncodedNumber, made by the constructor from any residue *)
(* and exponent or by encode from an integer, then decoded and moved to     *)
(* another exponent.  ghost holds the EncodedNumber (self), the one         *)
(* decrease_exponent_to returned (res), and the integer self encodes when   *)
(* it came from encode (from).                                              *)

\* residues handed to the constructor: 0..MaxResidue
MaxResidue == 36

\* exponents of an EncodedNumber, and new exponents: -MaxEncExponent..MaxEncExponent
MaxEncExponent == 1

EncExponents == (0 - MaxEncExponent)..MaxEncExponent

InitEncoded ==
    /\ private_key \in {KeyOf(pq) : pq \in CodecKeyPairs}
    /\ heap = [s \in Slots |-> NoObj]
    /\ ghost = [self |-> NoEncoded, res |-> NoEncoded, from |-> None]
    /\ last = Call("none", "-", "-", 0, 0, Ok(0))
    /\ LibIdle

\* self = EncodedNumber(pk, encoding, exponent)
NewEncoded(pk, encoding, exponent) ==
    /\ ghost.self = NoEncoded
    /\ ghost' = [self |-> EncodedNumber(pk, encoding, exponent),
                 res |-> NoEncoded, from |-> None]
    /\ last' = Call("EncodedNumber", "-", "-", encoding, pk.n, Ok(encoding))
    /\ UNCHANGED <<private_key, heap, aggregation, stdin, pc>>

\* self = EncodedNumber.encode(pk, v)
EncodeInt(pk, v) ==
    LET call(e) ==
            /\ ghost' = IF e.ok THEN [self |-> e.enc, res |-> NoEncoded, from |-> Some(v)]
                        ELSE ghost
            /\ last' = Call("encode", "-", "-", v, pk.n,
                            IF e.ok THEN Ok(e.enc.encoding) ELSE Raise(e.err))
    IN  /\ ghost.self = NoEncoded
        /\ call(encode(pk, v, None))
        /\ UNCHANGED <<private_key, heap, aggregation, stdin, pc>>

\* self.decode()
Decode ==
    /\ ghost.self # NoEncoded
    /\ last' = Call("decode", "-", "-", 0, 0, decode(ghost.self))
    /\ UNCHANGED <<private_key, heap, ghost, aggregation, stdin, pc>>

\* res = self.decrease_exponent_to(new_exp)
DecreaseEncoded(new_exp) ==
    LET call(e) ==
            /\ ghost' = [ghost EXCEPT !.res = e.enc]
            /\ last' = Call("decrease_exponent_to", "-", "-", new_exp, 0,
                            IF e.ok THEN Ok(e.enc.encoding) ELSE Raise(e.err))
    IN  /\ ghost.self # NoEncoded
        /\ call(EncodedDecreaseExponentTo(ghost.self, new_exp))
        /\ UNCHANGED <<private_key, heap, aggregation, stdin, pc>>

NextEncoded ==
    \/ \E encoding \in 0..MaxResidue, exponent \in EncExponents :
          NewEncoded(public_key, encoding, exponent)
    \/ \E v \in CodecValues : EncodeInt(public_key, v)
    \/ Decode
    \/ \E new_exp \in EncExponents : DecreaseEncoded(new_exp)

SpecEncoded == InitEncoded /\ [][NextEncoded]_vars

-----------------------------------------------------------------------------
(* SpecPrime: is_prime called on every integer below 20000.  When the call  *)
(* reaches miller_rabin, pc is "miller_rabin", ghost holds its locals n, d, *)
(* r and the number k of passes still to run, and each pass is a step that  *)
(* draws its witness; pc is "done" when is_prime has returned.              *)

\* is_prime is called on every integer of PrimeArgs
MaxPrimeArg == 19999

\* is_prime is also called on 0 and on the negatives down to -MaxNegArg
MaxNegArg == 3

PrimeArgs == (0 - MaxNegArg)..MaxPrimeArg

\* of the witnesses random.randint(2, n - 2) can return, the MaxWitness
\* least and the MaxWitness greatest are followed
MaxWitness == 4

Witnesses(n) ==
    {a \in (2..(1 + MaxWitness)) \cup ((n - 1 - MaxWitness)..(n - 2)) :
        2 <= a /\ a <= n - 2}

NoLocals == [n |-> 0, d |-> 0, r |-> 0, k |-> 0]

InitPrime ==
    /\ private_key = NoKey
    /\ heap = [s \in Slots |-> NoObj]
    /\ ghost = NoLocals
    /\ last = Call("none", "-", "-", 0, 0, Ok(0))
    /\ aggregation = NoObj
    /\ stdin = <<>>
    /\ pc = "lib"

\* is_prime(n) up to its return, or up to the first pass of miller_rabin
IsPrime(n) ==
    LET miller_rabin(dr) ==
            /\ pc' = "miller_rabin"
            /\ ghost' = [n |-> n, d |-> dr[1], r |-> dr[2], k |-> mr_rounds]
            /\ last' = Call("is_prime:", "-", "-", n, 0, Ok(0))
        enter(b) ==
            IF ~b.done THEN miller_rabin(mr_split(n - 1, 0))
            ELSE /\ pc' = "done"
                 /\ ghost' = NoLocals
                 /\ last' = Call("is_prime", "-", "-", n, 0, Ok(b.ret))
    IN  /\ enter(is_prime_begin(n))
        /\ UNCHANGED <<private_key, heap, aggregation, stdin>>

\* one pass of miller_rabin's "for _ in range(k)" with the witness a, and
\* the return of miller_rabin and is_prime after a failed or the last pass
MillerRabinPass(a) ==
    LET pass(ok) ==
            IF ok /\ ghost.k > 1
            THEN /\ pc' = "miller_rabin"
                 /\ ghost' = [ghost EXCEPT !.k = ghost.k - 1]
                 /\ last' = Call("is_prime:", "-", "-", ghost.n, a, Ok(0))
            ELSE /\ pc' = "done"
                 /\ ghost' = [ghost EXCEPT !.k = IF ok THEN 0 ELSE ghost.k]
                 /\ last' = Call("is_prime", "-", "-", ghost.n, a, Ok(ok))
    IN  /\ pass(mr_witness_passes(ghost.n, ghost.d, ghost.r, a))
        /\ UNCHANGED <<private_key, heap, aggregation, stdin>>

NextPrime ==
    \/ pc = "lib" /\ \E n \in PrimeArgs : IsPrime(n)
    \/ pc = "miller_rabin" /\ \E a \in Witnesses(ghost.n) : MillerRabinPass(a)

SpecPrime == InitPrime /\ [][NextPrime]_vars

-----------------------------------------------------------------------------
(* getprimeover(N) in its pure-Python path, one call a behaviour, for every *)
(* N up to MaxBits and every value randrange can return.  ghost holds the   *)
(* locals N and the drawn start; last holds the call and what it returned.  *)

MaxBits == 8

\* the least N with a prime of N bits is 2
BitLengths == 2..MaxBits

GetPrimeOver(N, x) ==
    /\ pc = "lib"
    /\ \E n \in getprimeover_from(x) :
          /\ ghost' = [NoLocals EXCEPT !.n = or_one(x), !.k = N]
          /\ last' = Call("getprimeover", "-", "-", N, x, Ok(n))
    /\ pc' = "done"
    /\ UNCHANGED <<private_key, heap, aggregation, stdin>>

NextGetPrime ==
    \E N \in BitLengths : \E x \in getprimeover_draws(N) : GetPrimeOver(N, x)

SpecGetPrime == InitPrime /\ [][NextGetPrime]_vars

-----------------------------------------------------------------------------
(* generate_paillier_keypair(n_length), one call a behaviour.  ghost holds  *)
(* the locals n_length, p, q, n and n_len (0 stands for None), and whether  *)
(* an earlier candidate pair was rejected; pc is the position in the two    *)
(* while loops.  The returned private key is private_key, the returned      *)
(* public key its public_key.                                               *)

MaxKeyLength == 12

KeyLengths == 2..MaxKeyLength

KeypairLocals(n_length, p, q, n, n_len, rejected) ==
    [n_length |-> n_length, p |-> p, q |-> q, n |-> n, n_len |-> n_len,
     rejected |-> rejected]

InitKeypair ==
    /\ private_key = NoKey
    /\ heap = [s \in Slots |-> NoObj]
    /\ ghost = KeypairLocals(0, 0, 0, 0, 0, FALSE)
    /\ last = Call("none", "-", "-", 0, 0, Ok(0))
    /\ aggregation = NoObj
    /\ stdin = <<>>
    /\ pc = "lib"

\* the call, up to the first test of "while n_len != n_length"
GenerateKeypair(n_length) ==
    /\ pc = "lib"
    /\ pc' = "while n_len != n_length"
    /\ ghost' = KeypairLocals(n_length, 0, 0, 0, 0, FALSE)
    /\ last' = Call("generate_paillier_keypair:", "-", "-", n_length, 0, Ok(0))
    /\ UNCHANGED <<private_key, heap, aggregation, stdin>>

\* the outer loop goes on: p = getprimeover(n_length // 2); q = p
DrawP ==
    /\ pc = "while n_len != n_length"
    /\ ghost.n_len # ghost.n_length
    /\ \E p \in getprimeover(ghost.n_length \div 2) :
          ghost' = [ghost EXCEPT !.p = p, !.q = p,
                                 !.rejected = ghost.n_len # 0]
    /\ pc' = "while q == p"
    /\ UNCHANGED <<private_key, heap, last, aggregation, stdin>>

\* the inner loop goes on: q = getprimeover(n_length // 2); when it then
\* ends, n = p * q and n_len = n.bit_length()
DrawQ ==
    /\ pc = "while q == p"
    /\ ghost.q = ghost.p
    /\ \E q \in getprimeover(ghost.n_length \div 2) :
          IF q = ghost.p
          THEN /\ ghost' = [ghost EXCEPT !.q = q]
               /\ pc' = "while q == p"
          ELSE /\ ghost' = [ghost EXCEPT !.q = q, !.n = ghost.p * q,
                                          !.n_len = bit_length(ghost.p * q)]
               /\ pc' = "while n_len != n_length"
    /\ UNCHANGED <<private_key, heap, last, aggregation, stdin>>

\* the outer loop ends: the two keys are built and returned
ReturnKeypair ==
    LET build(key) ==
            IF key.ok
            THEN /\ private_key' = key.key
                 /\ last' = Call("generate_paillier_keypair", "-", "-",
                                  ghost.n_length, 0, Ok(ghost.n))
            ELSE /\ private_key' = private_key
                 /\ last' = Call("generate_paillier_keypair", "-", "-",
                                  ghost.n_length, 0, Raise(key.err))
    IN  /\ pc = "while n_len != n_length"
        /\ ghost.n_len = ghost.n_length
        /\ build(PaillierPrivateKey(PaillierPublicKey(ghost.n), ghost.p, ghost.q))
        /\ pc' = "done"
        /\ UNCHANGED <<heap, ghost, aggregation, stdin>>

NextKeypair ==
    \/ \E n_length \in KeyLengths : GenerateKeypair(n_length)
    \/ DrawP
    \/ DrawQ
    \/ ReturnKeypair

SpecKeypair == InitKeypair /\ [][NextKeypair]_vars

-----------------------------------------------------------------------------
(* Claims *)

\* C1 (as stated): decrypt(encrypt(v)) returns exactly v for every v the
\* key can encrypt, whatever r the encryption draws from [1, n).
C1_RoundTrip ==
    (last.op = "decrypt" /\ ghost[last.a].kind = "enc")
        => last.out = Ok(ghost[last.a].val)

\* C3 (as stated, kept to the products a * k the key can represent):
\* decrypt(encrypt(a) * k) returns a * k for every encryptable a and every
\* integer k, negative k included.
C3_ScalarMul ==
    (/\ last.op = "decrypt"
     /\ ghost[last.a].kind = "mul"
     /\ abs(ghost[last.a].val) <= public_key.max_int)
        => last.out = Ok(ghost[last.a].val)

\* C2 (as stated, kept to the sums a + b the key can represent):
\* decrypt(encrypt(a) + encrypt(b)) returns a + b for all a and b encrypted
\* under the key that decrypts.
C2_AddHomomorphism ==
    (/\ last.op = "decrypt"
     /\ ghost[last.a].kind = "add"
     /\ last.key = heap[last.a].public_key.n
     /\ abs(ghost[last.a].val) <= heap[last.a].public_key.max_int)
        => last.out = Ok(ghost[last.a].val)

\* C7: decrypting an instance with the private key of another modulus,
\* adding two EncryptedNumbers of different moduli, and adding an
\* EncodedNumber of another modulus to an EncryptedNumber each raise the
\* key-mismatch ValueError, bind no result and leave every instance as it
\* was; with equal moduli none of the three raises that error.
C7_KeyMismatch ==
    [][/\ last'.op = "decrypt"
          => IF last'.key # heap[last'.a].public_key.n
             THEN last'.out = Raise(ErrKeyDecrypt) /\ heap' = heap
             ELSE last'.out.err # ErrKeyDecrypt
       /\ last'.op = "add"
          => IF heap[last'.a].public_key.n # heap[last'.b].public_key.n
             THEN last'.out = Raise(ErrKeyAddEncrypted) /\ heap' = heap
             ELSE last'.out.err # ErrKeyAddEncrypted
       /\ last'.op = "add_encoded"
          => IF last'.key # heap[last'.a].public_key.n
             THEN last'.out = Raise(ErrKeyAddEncoded) /\ heap' = heap
             ELSE last'.out.err # ErrKeyAddEncoded]_vars

\* all three mismatches have been met: the last call is a refused decrypt of
\* x while x and y are of different keys and z was never bound
C7_Witness ==
    /\ last.op = "decrypt"
    /\ last.out = Raise(ErrKeyDecrypt)
    /\ Bound("x") /\ Bound("y") /\ ~Bound("z")
    /\ heap["x"].public_key.n # heap["y"].public_key.n

\* the exponent every grouping is to end at
MinExponent == min(heap["x"].exponent, min(heap["y"].exponent, heap["z"].exponent))

\* C4 (as stated): for three encrypted numbers of differing exponents under
\* one key, any two groupings of the two additions that have been tried both
\* returned a result, at the minimum of the three exponents, and the two
\* results decrypt to the same value.
C4_AlignAssociative ==
    \A g, h \in Totals :
        (ghost[g.d].kind # "none" /\ ghost[h.d].kind # "none")
            => /\ ghost[g.d].kind # "raised"
               /\ heap[g.d].exponent = MinExponent
               /\ decrypt(private_key, heap[g.d]).out
                     = decrypt(private_key, heap[h.d]).out

\* C9: when stdin held at least one line, every line a valid encryption (r
\* coprime to n) of an integer, and the sum of those integers is within
\* +/- max_int, the driver prints that sum, in whatever order the lines came.
C9_DriverAggregation ==
    (/\ pc \in {"done", "raised"}
     /\ ghost.kind = "valid"
     /\ ghost.count >= 1
     /\ abs(ghost.val) <= PaillierPublicKey(driver_n).max_int)
        => pc = "done" /\ last.op = "print" /\ last.out = Ok(ghost.val)

\* the driver has printed the non-zero sum of MaxLines valid lines
C9_Witness ==
    /\ pc = "done"
    /\ ghost.kind = "valid"
    /\ ghost.count = MaxLines
    /\ ghost.val # 0
    /\ last.out = Ok(ghost.val)

\* C5 (as stated): an instance that decrypts to v still decrypts to v after
\* obfuscate(), whatever r in [1, n) the call draws, and keeps its exponent.
C5_ObfuscatePreserves ==
    [][(last'.op = "obfuscate" /\ decrypt(private_key, heap[last'.a]).out.ok)
          => /\ decrypt(private_key, heap'[last'.a]).out
                   = decrypt(private_key, heap[last'.a]).out
             /\ heap'[last'.a].exponent = heap[last'.a].exponent]_vars

\* C6 (as stated): every obfuscate() call leaves a ciphertext integer that
\* differs from the one before the call, for every r in [1, n).
C6_ObfuscateChanges ==
    [][last'.op = "obfuscate"
          => heap'[last'.a].ciphertext # heap[last'.a].ciphertext]_vars

\* C6 (amended): obfuscate() replaces the ciphertext c by c * r^n mod n^2 for
\* the drawn r and sets the flag; with r = 1 the integer is unchanged, and a
\* ciphertext that is a unit modulo n^2 changes exactly when r^n mod n^2 # 1.
C6_ObfuscateMultiplies ==
    [][last'.op = "obfuscate"
          => LET before == heap[last'.a]
                 after == heap'[last'.a]
                 pk == before.public_key
             IN  /\ after.is_obfuscated
                 /\ \E r \in get_random_lt_n(pk) :
                       LET f == powmod(r, pk.n, pk.nsquare)
                       IN  /\ after.ciphertext = (before.ciphertext * f) % pk.nsquare
                           /\ r = 1 => after.ciphertext = before.ciphertext
                           /\ IsUnit(before.ciphertext, pk.nsquare)
                                 => (after.ciphertext # before.ciphertext <=> f # 1)]_vars

C6_Witness ==
    /\ last.op = "obfuscate"
    /\ heap[last.a].is_obfuscated
    /\ IsUnit(heap[last.a].ciphertext, public_key.nsquare)

\* C10: ciphertext(be_secure=True) leaves the flag obfuscated, multiplies the
\* stored ciphertext by a fresh r^n exactly when the flag was fresh and leaves
\* it alone when it was obfuscated; ciphertext(be_secure=False) changes
\* neither the stored ciphertext nor the flag; both return the stored value.
C10_SecureReveal ==
    [][/\ last'.op = "ciphertext(True)"
          => LET before == heap[last'.a]
                 after == heap'[last'.a]
                 pk == before.public_key
             IN  /\ after.is_obfuscated
                 /\ last'.out = Ok(after.ciphertext)
                 /\ after.exponent = before.exponent
                 /\ before.is_obfuscated => after = before
                 /\ ~before.is_obfuscated
                       => \E r \in get_random_lt_n(pk) :
                             after.ciphertext =
                               (before.ciphertext * powmod(r, pk.n, pk.nsquare))
                                  % pk.nsquare
       /\ last'.op = "ciphertext(False)"
          => /\ heap'[last'.a] = heap[last'.a]
             /\ last'.out = Ok(heap[last'.a].ciphertext)]_vars

\* C8: encode, and so encrypt, raises the out-of-range ValueError for every
\* integer v with |v| > max_int (max_int + 1 and -(max_int + 1) among them)
\* and binds nothing; for |v| <= max_int encode returns the residue v mod n,
\* which lies in [0, n), and encrypt returns an instance.
C8_OutOfRange ==
    /\ last.op \in {"encode", "encrypt"}
          => (last.out.ok <=> abs(last.arg) <= public_key.max_int)
    /\ (last.op \in {"encode", "encrypt"} /\ ~last.out.ok)
          => last.out.err = ErrOutOfRange
    /\ (last.op = "encode" /\ last.out.ok)
          => /\ last.out.val \in 0..(public_key.n - 1)
             /\ (last.out.val - last.arg) % public_key.n = 0
    /\ (last.op = "encrypt" /\ ~last.out.ok) => ~Bound(last.a)
    /\ (last.op = "encrypt" /\ last.out.ok) => Bound(last.a)

C8_Witness ==
    /\ last.op = "encode"
    /\ abs(last.arg) = public_key.max_int + 1
    /\ ~last.out.ok

C10_Witness ==
    /\ last.op = "ciphertext(True)"
    /\ heap[last.a].is_obfuscated
    /\ ghost[last.a].kind = "etc"

\* the calls that return a new EncryptedNumber
ProducerOps ==
    {"add", "add_encoded", "add_scalar", "mul", "sub", "sub_scalar",
     "decrease_exponent_to", "encrypt_encoded(r_value)"}

\* C11: every instance the constructor made or add, subtract, multiply or
\* decrease_exponent_to returned is fresh, whatever the flags of its
\* operands; the flag of an existing instance turns from fresh to obfuscated
\* only in a step that is its own obfuscate() or ciphertext(be_secure=True);
\* an obfuscated instance stays obfuscated.
C11_FlagMachine ==
    [][/\ (last'.op \in ProducerOps /\ last'.out.ok)
          => ~heap'[IF last'.op = "encrypt_encoded(r_value)" THEN last'.a
                    ELSE "z"].is_obfuscated
       /\ \A s \in {"x", "y"} :
             Bound(s) =>
                /\ heap[s].is_obfuscated => heap'[s].is_obfuscated
                /\ (~heap[s].is_obfuscated /\ heap'[s].is_obfuscated)
                      => /\ last'.op \in {"obfuscate", "ciphertext(True)"}
                         /\ last'.a = s]_vars

\* the sum of two obfuscated operands of different exponents is fresh
C11_Witness ==
    /\ last.op = "add" /\ last.out.ok
    /\ heap["x"].is_obfuscated /\ heap["y"].is_obfuscated
    /\ heap["x"].exponent # heap["y"].exponent
    /\ ~heap["z"].is_obfuscated

C18_PowmodDomain ==
    last.op = "powmod"
        => /\ ghost.c <= 0 => ~last.out.ok
           /\ (ghost.c > 0 /\ ghost.a = 1) => last.out = Ok(1)

\* the value of mantissa * BASE ** exponent as decode returns it
Decoded(mantissa, exponent) ==
    IF exponent >= 0 THEN Ok(mantissa * ipow(BASE, exponent))
    ELSE OkDiv(mantissa, ipow(BASE, 0 - exponent))

\* C16: decode raises the corrupted-number error for a residue >= n, returns
\* the mantissa residue for 0 <= residue <= max_int, the mantissa residue - n
\* for n - max_int <= residue < n, and raises the overflow error for every
\* residue strictly between; the two mantissa ranges are disjoint; and the
\* encoding of an integer v with |v| <= max_int decodes to v.
C16_DecodeClasses ==
    last.op = "decode"
        => LET residue == ghost.self.encoding
               exponent == ghost.self.exponent
               n == ghost.self.public_key.n
               max_int == ghost.self.public_key.max_int
           IN  /\ max_int < n - max_int
               /\ residue >= n => last.out = Raise(ErrCorrupted)
               /\ (0 <= residue /\ residue <= max_int)
                     => last.out = Decoded(residue, exponent)
               /\ (n - max_int <= residue /\ residue < n)
                     => last.out = Decoded(residue - n, exponent)
               /\ (max_int < residue /\ residue < n - max_int)
                     => last.out = Raise(ErrOverflow)
               /\ ghost.from # None
                     => /\ abs(ghost.from[1]) <= max_int
                        /\ last.out = Ok(ghost.from[1])

\* the encoding of a negative integer has been decoded
C16_Witness ==
    /\ last.op = "decode"
    /\ ghost.from # None
    /\ ghost.from[1] < 0
    /\ last.out = Ok(ghost.from[1])

\* two outcomes of decode that are the same number
SameValue(o1, o2) == /\ o1.ok /\ o2.ok
                     /\ o1.val * o2.den = o2.val * o1.den

\* C17 (as stated): EncodedNumber.decrease_exponent_to with new_exp <=
\* exponent returns an encoding at new_exp, with residue in [0, n), that
\* decodes to the value the original decodes to; with new_exp > exponent it
\* raises the invalid-exponent error.
C17_DecreaseKeepsValue ==
    last.op = "decrease_exponent_to"
        => IF last.arg <= ghost.self.exponent
           THEN /\ last.out.ok
                /\ ghost.res.exponent = last.arg
                /\ 0 <= ghost.res.encoding
                /\ ghost.res.encoding < ghost.self.public_key.n
                /\ decode(ghost.self).ok
                      => SameValue(decode(ghost.res), decode(ghost.self))
           ELSE last.out = Raise(ErrNewExponent)

\* C15 (as stated): the fold of two or more encrypted integers, each within
\* +/- max_int, decrypts to their exact sum or raises the overflow error.
C15_NoSilentOverflow ==
    (pc \in {"done", "raised"} /\ ghost.count >= 2)
        => \/ last.out = Ok(ghost.val)
           \/ last.out = Raise(ErrOverflow)

\* the divisors trial division has to try for a number up to MaxPrimeArg
TrialDivisors == {d \in 2..MaxPrimeArg : d * d <= MaxPrimeArg}

\* trial division: n > 1 has no divisor d with 1 < d < n
IsPrimeByTrialDivision(n) ==
    n > 1 /\ \A d \in TrialDivisors : d >= n \/ n % d # 0

\* C13: for every integer n below 20000 and every witness drawn, is_prime(n)
\* returns True exactly when trial division finds n prime; up to the last
\* table entry the answer is membership in the table, above it is_prime
\* returns False on a table divisor and the verdict of miller_rabin otherwise.
\* A number that reaches miller_rabin is prime, and every witness of
\* [2, n - 2] lets its pass go on.
C13_IsPrimeAgrees ==
    /\ last.op = "is_prime"
        => /\ last.out = Ok(IsPrimeByTrialDivision(last.arg))
           /\ last.arg <= first_primes_last
                 => last.out = Ok(last.arg \in first_primes_set)
           /\ (last.arg > first_primes_last /\ is_prime_divisible(last.arg))
                 => last.out = Ok(FALSE)
           /\ first_primes_last = 17863
    /\ (pc = "miller_rabin" /\ ghost.k = mr_rounds)
        => /\ IsPrimeByTrialDivision(ghost.n)
           /\ \A a \in 2..(ghost.n - 2) :
                 mr_witness_passes(ghost.n, ghost.d, ghost.r, a)

\* is_prime returned True for a number above the table after all mr_rounds
\* passes of miller_rabin
C13_Witness ==
    /\ last.op = "is_prime"
    /\ last.arg > first_primes_last
    /\ last.out = Ok(TRUE)
    /\ ghost.n = last.arg /\ ghost.k = 0

\* C12: getprimeover(N) returns a prime of exactly N bits, whatever start
\* randrange draws.
C12_ExactBits ==
    last.op = "getprimeover"
        => /\ bit_length(last.out.val) = last.arg
           /\ IsPrimeByTrialDivision(last.out.val)

\* C14: when generate_paillier_keypair(n_length) returns, it returns keys
\* (no error), the public modulus is p * q of two different primes drawn
\* and has exactly n_length bits, and the private key holds the two factors
\* with p < q and p * q equal to its public key's n.
C14_KeypairShape ==
    last.op = "generate_paillier_keypair"
        => /\ last.out.ok
           /\ ghost.p # ghost.q
           /\ private_key.public_key.n = ghost.p * ghost.q
           /\ bit_length(private_key.public_key.n) = last.arg
           /\ {private_key.p, private_key.q} = {ghost.p, ghost.q}
           /\ private_key.p < private_key.q
           /\ private_key.p * private_key.q = private_key.public_key.n

\* a pair was rejected for its length, and the pair returned was drawn
\* with q < p
C14_Witness ==
    /\ last.op = "generate_paillier_keypair"
    /\ last.out.ok
    /\ ghost.rejected
    /\ ghost.q < ghost.p
    /\ private_key.p = ghost.q

====
